---- MODULE Spec2Model ----
(***************************************************************************)
(* Model of the notebook "Fake News Detection with Tensorflow": the pure   *)
(* feature functions (is_suspicious_country, percent_difficult_words,      *)
(* analyze_sentiment), the refinement pipeline over DataFrame objects      *)
(* (add_features, drop_features, scale_features), the scikit-learn         *)
(* evaluation loop and main().                                             *)
(***************************************************************************)
EXTENDS Integers, Sequences, FiniteSets, TLC

VARIABLES
    pc,        \* position of main(): the statement about to run
    rpc,       \* position inside refine_fake_news_data, "idle" outside it
    heap,      \* the Python objects: sequence indexed by object id
    env,       \* main()'s local variables, as object ids (0 = unbound)
    df,        \* refine's local fake_news_df, as an object id
    model_i,   \* index of the classifier the evaluation loop is about to run
    out,       \* the console: what print() has written
    log,       \* ghost: the calls main() has made, with their arguments
    rlog,      \* ghost: the stages the current refine call has run
    snapshot,  \* ghost: the table passed to the current refine call, at entry
    err,       \* "none", or the exception that left main()
    remote,    \* the two JSON documents behind the remote endpoint
    arg,       \* input of a directly called feature function
    res        \* its result

vars == <<pc, rpc, heap, env, df, model_i, out, log, rlog, snapshot, err,
          remote, arg, res>>

mainVars == <<pc, rpc, heap, env, df, model_i, out, log, rlog, snapshot, err,
              remote>>

----------------------------------------------------------------------------
(* Bounds of the model.                                                    *)

MaxPad == 1          \* characters put before and after a country core
MaxWords == 7        \* largest textstat word count of a generated article
MaxMant == 3         \* largest |k| of a generated raw sentiment k * 2^-e
MaxSmallExp == 2     \* coarse raw sentiment values: e in 0..MaxSmallExp
MaxExtraExp == 2     \* fine raw sentiment values: e up to FractionBits + 1 + MaxExtraExp
MaxRows == 11        \* most rows of the remote training document
MaxTestRows == 1     \* most rows of the remote testing document

----------------------------------------------------------------------------
(* Python numbers.  An int is kept as such; the result of a true division  *)
(* is the fraction in lowest terms; a division by zero raises.             *)

RECURSIVE Gcd(_, _)
Gcd(a, b) == IF b = 0 THEN a ELSE Gcd(b, a % b)

PyInt(n) == [kind |-> "int", num |-> n, den |-> 1]

ZeroDivisionError == [kind |-> "ZeroDivisionError", num |-> 0, den |-> 0]

TrueDiv(a, b) ==
    IF b = 0 THEN ZeroDivisionError
    ELSE LET g == Gcd(a, b)
         IN  IF a = 0 THEN [kind |-> "float", num |-> 0, den |-> 1]
             ELSE [kind |-> "float", num |-> a \div g, den |-> b \div g]

----------------------------------------------------------------------------
(* is_suspicious_country.  A Python str is the sequence of its characters. *)

MK == <<"M", "K">>
PA == <<"P", "A">>
REDACTED == <<"R", "E", "D", "A", "C", "T", "E", "D">>

sus_countries == <<MK, PA>>

\* x in list: equality with some element
InList(x, list) == \E i \in 1..Len(list) : list[i] = x

\* sub in s, for two str: a left-to-right scan for the first match
RECURSIVE FindFrom(_, _, _)
FindFrom(sub, s, i) ==
    IF i + Len(sub) - 1 > Len(s) THEN FALSE
    ELSE IF SubSeq(s, i, i + Len(sub) - 1) = sub THEN TRUE
    ELSE FindFrom(sub, s, i + 1)

StrEqualsOnly(sub, s) == s = sub

StrContains(sub, s) == FindFrom(sub, s, 1)

\* int(bool)
IntOfBool(b) == IF b THEN 1 ELSE 0

is_suspicious_country(country) ==
    IntOfBool(InList(country, sus_countries) \/ StrContains(REDACTED, country))

----------------------------------------------------------------------------
(* percent_difficult_words.  An article text is known to the program only  *)
(* through what textstat and textblob measure on it, so a text is the      *)
(* record of those measurements.                                           *)

lexicon_count(article) == article.lexicon_count

difficult_words(article) == article.difficult_words

flesch_reading_ease(article) == article.flesch

LexiconIsZeroUnguarded(article) == FALSE

LexiconIsZero(article) == lexicon_count(article) = 0

percent_difficult_words(article) ==
    IF LexiconIsZero(article) THEN PyInt(0)
    ELSE TrueDiv(difficult_words(article), lexicon_count(article))

----------------------------------------------------------------------------
(* analyze_sentiment.  Python floats are IEEE-754 binary64.  The values    *)
(* met here are dyadic: Dy(k, e) is k * 2^-e.  A raw sentiment is such a   *)
(* value in [-1, 1]; v + 1 is kept as its offset from 1 and (v + 1) / 2 as *)
(* its offset from 1/2, both again dyadic.                                 *)

FractionBits == 52   \* binary64: doubles in [1, 2) are 2^-52 apart

RECURSIVE Pow2(_)
Pow2(n) == IF n = 0 THEN 1 ELSE 2 * Pow2(n - 1)

Abs(n) == IF n < 0 THEN -n ELSE n

RECURSIVE DyNorm(_, _)
DyNorm(k, e) ==
    IF k = 0 THEN [k |-> 0, e |-> 0]
    ELSE IF e > 0 /\ k % 2 = 0 THEN DyNorm(k \div 2, e - 1)
    ELSE [k |-> k, e |-> e]

Dy(k, e) == DyNorm(k, e)

\* a < b for two positive dyadics; k and 2^d stay below 2^31
PosLess(a, b) ==
    IF a.e <= b.e
    THEN LET d == b.e - a.e
         IN  IF d > 30 \/ Pow2(d) > b.k THEN FALSE
             ELSE a.k * Pow2(d) < b.k
    ELSE LET d == a.e - b.e
         IN  IF d > 30 \/ Pow2(d) > a.k THEN TRUE
             ELSE a.k < b.k * Pow2(d)

DyLess(a, b) ==
    IF a.k <= 0 /\ b.k > 0 THEN TRUE
    ELSE IF a.k < 0 /\ b.k = 0 THEN TRUE
    ELSE IF a.k >= 0 /\ b.k <= 0 THEN FALSE
    ELSE IF a.k > 0 THEN PosLess(a, b)
    ELSE PosLess([k |-> -b.k, e |-> b.e], [k |-> -a.k, e |-> a.e])

DyLeq(a, b) == a = b \/ DyLess(a, b)

\* n / d rounded to the nearest integer, ties to the even one (n >= 0, d >= 2)
RoundHalfEven(n, d) ==
    LET q == n \div d
        r == n % d
    IN  IF 2 * r < d THEN q
        ELSE IF 2 * r > d THEN q + 1
        ELSE IF q % 2 = 0 THEN q ELSE q + 1

\* v + 1.0 as the offset of the float result from 1, rounded to nearest, ties
\* to even.  For v >= 0 the sum is in [1, 2], where doubles are 2^-FractionBits
\* apart.  For v < 0 it is in [0, 1): every multiple of 2^-(FractionBits+1)
\* there is a double, and a finer v has |v| < 1/2, so that the sum is in
\* [1/2, 1], where doubles are 2^-(FractionBits+1) apart.
FloatAddOne(v) ==
    IF v.k >= 0
    THEN IF v.e <= FractionBits THEN v
         ELSE Dy(RoundHalfEven(v.k, Pow2(v.e - FractionBits)), FractionBits)
    ELSE IF v.e <= FractionBits + 1 THEN v
         ELSE Dy(-RoundHalfEven(-v.k, Pow2(v.e - FractionBits - 1)), FractionBits + 1)

\* s / 2 for s = 1 + d: exact, 1/2 + d/2, kept as the offset from 1/2
FloatHalve(d) == Dy(d.k, d.e + 1)

RescaleMirrored(v) == FloatHalve(FloatAddOne(Dy(-v.k, v.e)))

\* (v + 1) / 2
Rescale(v) == FloatHalve(FloatAddOne(v))

\* returns the tuple (polarity, subjectivity), both rescaled
analyze_sentiment(article) ==
    <<Rescale(article.polarity), Rescale(article.subjectivity)>>

\* the offset r from 1/2 denotes a value of [0, 1]: |r| <= 1/2
InUnitInterval(r) == r.e > 30 \/ 2 * Abs(r.k) <= Pow2(r.e)

----------------------------------------------------------------------------
(* pandas objects.  A DataFrame is its column set, its index and its rows  *)
(* in order, each row a function from the columns to the cell values.      *)

DataFrame(columns, index, rows) ==
    [type |-> "DataFrame", columns |-> columns, index |-> index, rows |-> rows]

Series(index, values) ==
    [type |-> "Series", columns |-> {}, index |-> index, rows |-> values]

\* t[c] = values, values aligned with t by position (same index)
AssignColumn(t, c, values) ==
    [t EXCEPT
        !.columns = @ \cup {c},
        !.rows = [i \in 1..Len(t.rows) |->
                    [x \in t.columns \cup {c} |->
                        IF x = c THEN values[i] ELSE t.rows[i][x]]]]

\* t[c].apply(f): one value per row, in row order
Column(t, c) == [i \in 1..Len(t.rows) |-> t.rows[i][c]]

RECURSIVE SortedByDateDescending(_)
SortedByDateDescending(rows) ==
    IF Len(rows) = 0 THEN <<>>
    ELSE LET m == CHOOSE i \in 1..Len(rows) :
                    /\ \A j \in 1..Len(rows) :
                          rows[j]["creation_date"].num <= rows[i]["creation_date"].num
                    /\ \A j \in 1..(i - 1) :
                          rows[j]["creation_date"].num < rows[i]["creation_date"].num
             rest == [j \in 1..(Len(rows) - 1) |->
                         IF j < m THEN rows[j] ELSE rows[j + 1]]
         IN  <<rows[m]>> \o SortedByDateDescending(rest)

DropColumnsKeepTitle(t, cols) ==
    DataFrame(t.columns \ (cols \ {"title"}), t.index,
              [i \in 1..Len(t.rows) |->
                  [x \in t.columns \ (cols \ {"title"}) |-> t.rows[i][x]]])

\* t.drop(columns=cols): a new table without the columns, same rows, same index
DropColumns(t, cols) ==
    DataFrame(t.columns \ cols, t.index,
              [i \in 1..Len(t.rows) |-> [x \in t.columns \ cols |-> t.rows[i][x]]])

\* t.reset_index(drop=True): a new table with the index 0..n-1
ResetIndexSortedByDate(t) ==
    DataFrame(t.columns,
              [i \in 1..Len(t.rows) |-> i - 1],
              IF "creation_date" \in t.columns
              THEN SortedByDateDescending(t.rows) ELSE t.rows)

ResetIndex(t) ==
    DataFrame(t.columns, [i \in 1..Len(t.rows) |-> i - 1], t.rows)

\* zip(*pairs): the tuple of firsts and the tuple of seconds; nothing at all
\* for no pairs
ZipStar(pairs) ==
    IF Len(pairs) = 0 THEN <<>>
    ELSE << [i \in 1..Len(pairs) |-> pairs[i][1]],
            [i \in 1..Len(pairs) |-> pairs[i][2]] >>

----------------------------------------------------------------------------
(* The feature-engineering stages.  Each takes the heap and the id of the  *)
(* table it is passed and gives the heap after the call, the id of the     *)
(* table it returns, and the exception it raised ("none" if it returned).  *)

Returned(h, d) == [heap |-> h, ret |-> d, raise |-> "none"]

Raised(h, d, e) == [heap |-> h, ret |-> d, raise |-> e]

Alloc(h, obj) == Returned(Append(h, obj), Len(h) + 1)

add_suspicious_country_column(h, d) ==
    IF "country" \notin h[d].columns THEN Raised(h, d, "KeyError")
    ELSE LET col == Column(h[d], "country")
         IN  Returned([h EXCEPT ![d] = AssignColumn(@, "is_suspicious_country",
                          [i \in 1..Len(col) |-> is_suspicious_country(col[i])])], d)

add_flesch_reading_ease_column(h, d) ==
    IF "article_text" \notin h[d].columns THEN Raised(h, d, "KeyError")
    ELSE LET col == Column(h[d], "article_text")
         IN  Returned([h EXCEPT ![d] = AssignColumn(@, "flesch_reading_ease",
                          [i \in 1..Len(col) |-> flesch_reading_ease(col[i])])], d)

\* Series.apply gives the column one dtype: int64 if every value is an int,
\* float64 as soon as one is a float, the ints then stored as floats
InferDtype(values) ==
    IF \E i \in 1..Len(values) : values[i].kind = "float"
    THEN [i \in 1..Len(values) |->
             IF values[i].kind = "int" THEN TrueDiv(values[i].num, 1) ELSE values[i]]
    ELSE values

add_percent_difficult_words_column(h, d) ==
    IF "article_text" \notin h[d].columns THEN Raised(h, d, "KeyError")
    ELSE LET col == Column(h[d], "article_text")
             val == [i \in 1..Len(col) |-> percent_difficult_words(col[i])]
         IN  IF \E i \in 1..Len(col) : val[i] = ZeroDivisionError
             THEN Raised(h, d, "ZeroDivisionError")
             ELSE Returned([h EXCEPT ![d] =
                      AssignColumn(@, "percent_difficult_words", InferDtype(val))], d)

add_sentiment_columns(h, d) ==
    IF "article_text" \notin h[d].columns THEN Raised(h, d, "KeyError")
    ELSE LET col == Column(h[d], "article_text")
             z == ZipStar([i \in 1..Len(col) |-> analyze_sentiment(col[i])])
         IN  IF Len(z) # 2 THEN Raised(h, d, "ValueError")
             ELSE Returned([h EXCEPT ![d] =
                      AssignColumn(AssignColumn(@, "article_polarity", z[1]),
                                   "article_subjectivity", z[2])], d)

DroppedColumns == {"id", "article_text", "country", "title", "news_url"}

drop_features_inplace(h, d) ==
    IF ~(DroppedColumns \subseteq h[d].columns) THEN Raised(h, d, "KeyError")
    ELSE Returned([h EXCEPT ![d] = ResetIndex(DropColumns(@, DroppedColumns))], d)

drop_features(h, d) ==
    IF ~(DroppedColumns \subseteq h[d].columns) THEN Raised(h, d, "KeyError")
    ELSE Alloc(h, ResetIndex(DropColumns(h[d], DroppedColumns)))

\* now_timestamp is the wall clock read by the call
scale_creation_dates(h, d, now_timestamp) ==
    IF "creation_date" \notin h[d].columns THEN Raised(h, d, "KeyError")
    ELSE LET col == Column(h[d], "creation_date")
         IN  Returned([h EXCEPT ![d] = AssignColumn(@, "creation_date",
                          [i \in 1..Len(col) |-> TrueDiv(col[i].num, now_timestamp)])], d)

\* add_features then drop_features then scale_features, statement by statement
RefineOrderDropFirst ==
    << "drop_features",
       "add_suspicious_country_column", "add_flesch_reading_ease_column",
       "add_percent_difficult_words_column", "add_sentiment_columns",
       "scale_creation_dates" >>

RefineOrder ==
    << "add_suspicious_country_column", "add_flesch_reading_ease_column",
       "add_percent_difficult_words_column", "add_sentiment_columns",
       "drop_features", "scale_creation_dates" >>

----------------------------------------------------------------------------
(* The remote documents.  A document of n articles is generated from a     *)
(* shape: which columns it has, how the articles and labels cycle, and     *)
(* whether its index is 0..n-1.                                            *)

PRIVACY == REDACTED \o <<" ", "F", "O", "R", " ", "P", "R", "I", "V", "A", "C", "Y">>

Countries == << MK, <<"U", "S">>, PRIVACY >>

Texts ==
    << [lexicon_count |-> 0, difficult_words |-> 0, flesch |-> 20684,
        polarity |-> Dy(0, 0), subjectivity |-> Dy(0, 0)],
       [lexicon_count |-> 4, difficult_words |-> 1, flesch |-> 7512,
        polarity |-> Dy(-1, 2), subjectivity |-> Dy(1, 1)],
       [lexicon_count |-> 3, difficult_words |-> 3, flesch |-> -1020,
        polarity |-> Dy(1, FractionBits + 2), subjectivity |-> Dy(3, 2)] >>

BaseColumns ==
    {"id", "article_text", "country", "title", "news_url", "creation_date", "is_fake"}

Shapes ==
    << [columns |-> BaseColumns, labels |-> "halves", shift |-> 0, gapped |-> FALSE],
       [columns |-> BaseColumns \cup {"tweet_count"}, labels |-> "alternate",
        shift |-> 1, gapped |-> TRUE],
       [columns |-> BaseColumns, labels |-> "zeros", shift |-> 2, gapped |-> FALSE],
       [columns |-> BaseColumns \ {"is_fake"}, labels |-> "halves", shift |-> 0,
        gapped |-> FALSE],
       [columns |-> BaseColumns \ {"country"}, labels |-> "halves", shift |-> 0,
        gapped |-> FALSE],
       [columns |-> BaseColumns \ {"article_text"}, labels |-> "halves", shift |-> 0,
        gapped |-> FALSE],
       [columns |-> BaseColumns \ {"title"}, labels |-> "halves", shift |-> 0,
        gapped |-> FALSE],
       [columns |-> BaseColumns \ {"creation_date"}, labels |-> "halves", shift |-> 0,
        gapped |-> FALSE] >>

Label(kind, i, n) ==
    CASE kind = "halves" -> IF 2 * i < n THEN 0 ELSE 1
      [] kind = "alternate" -> i % 2
      [] OTHER -> 0

Cell(c, i, n, shape) ==
    CASE c = "id" -> i
      [] c = "article_text" -> Texts[((i + shape.shift) % Len(Texts)) + 1]
      [] c = "country" -> Countries[((i + shape.shift) % Len(Countries)) + 1]
      [] c = "title" -> <<"title", i>>
      [] c = "news_url" -> <<"url", i>>
      [] c = "creation_date" -> PyInt(i + 1)
      [] c = "tweet_count" -> PyInt(i * i)
      [] OTHER -> Label(shape.labels, i, n)

Document(n, shape) ==
    DataFrame(shape.columns,
              [i \in 1..n |-> IF shape.gapped THEN 2 * i + 1 ELSE i - 1],
              [i \in 1..n |-> [c \in shape.columns |-> Cell(c, i - 1, n, shape)]])

Documents(maxRows) ==
    {Document(n, Shapes[v]) : n \in 0..maxRows, v \in 1..Len(Shapes)}

\* the wall clock values a run may read
Nows == {20, 32}

----------------------------------------------------------------------------
(* main().                                                                 *)

MainOrderNetworkFirst ==
    << "load_fake_news_training_data", "load_fake_news_testing_data",
       "refine_training", "refine_testing",
       "create_neural_network", "evaluate_sklearn_models",
       "train_neural_network", "evaluate_neural_network" >>

\* the statements of main(), in program order
MainOrder ==
    << "load_fake_news_training_data", "load_fake_news_testing_data",
       "refine_training", "refine_testing",
       "evaluate_sklearn_models", "create_neural_network",
       "train_neural_network", "evaluate_neural_network" >>

\* the statement after s, or last after the final one
Succ(order, s, last) ==
    LET i == CHOOSE j \in 1..Len(order) : order[j] = s
    IN  IF i = Len(order) THEN last ELSE order[i + 1]

PcAfterRaiseRetried(stage) == stage

\* nothing in main() catches: an exception leaves main()
PcAfterRaise(stage) == "aborted"

Call(name, args) == [call |-> name, args |-> args]

NoObject == DataFrame({}, <<>>, <<>>)

Abort(e) ==
    /\ pc' = PcAfterRaise(pc)
    /\ err' = e
    /\ UNCHANGED <<rpc, heap, env, df, model_i, out, rlog, snapshot, remote, arg, res>>

\* load_fake_news_data: fetch, parse, split off the label column
LoadData(doc, fvar, lvar) ==
    /\ pc' = Succ(MainOrder, pc, "done")
    /\ "is_fake" \in doc.columns
    /\ heap' = heap \o << DropColumns(doc, {"is_fake"}),
                          Series(doc.index, Column(doc, "is_fake")) >>
    /\ env' = [env EXCEPT ![fvar] = Len(heap) + 1, ![lvar] = Len(heap) + 2]
    /\ log' = Append(log, Call(pc, <<>>))
    /\ UNCHANGED <<rpc, df, model_i, out, rlog, snapshot, err, remote, arg, res>>

LoadDataRaises(doc) ==
    /\ log' = Append(log, Call(pc, <<>>))
    /\ \/ Abort("RequestException")
       \/ Abort("ValueError")
       \/ "is_fake" \notin doc.columns /\ Abort("KeyError")

LoadTrainingData ==
    /\ pc = "load_fake_news_training_data"
    /\ LoadData(remote.train, "train_features", "train_labels")

LoadTrainingDataRaises ==
    /\ pc = "load_fake_news_training_data"
    /\ LoadDataRaises(remote.train)

LoadTestingData ==
    /\ pc = "load_fake_news_testing_data"
    /\ LoadData(remote.test, "test_features", "test_labels")

LoadTestingDataRaises ==
    /\ pc = "load_fake_news_testing_data"
    /\ LoadDataRaises(remote.test)

RefinedVar == IF pc = "refine_training" THEN "train_features" ELSE "test_features"

\* the call refine_fake_news_data(features)
RefineCall ==
    /\ pc \in {"refine_training", "refine_testing"}
    /\ rpc = "idle"
    /\ rpc' = RefineOrder[1]
    /\ df' = env[RefinedVar]
    /\ snapshot' = [id |-> env[RefinedVar], table |-> heap[env[RefinedVar]]]
    /\ rlog' = <<>>
    /\ log' = Append(log, Call(pc, <<env[RefinedVar]>>))
    /\ UNCHANGED <<pc, heap, env, model_i, out, err, remote, arg, res>>

\* one stage of the refinement: fake_news_df = stage(fake_news_df)
RunStage(stage, r) ==
    /\ pc \in {"refine_training", "refine_testing"}
    /\ rpc = stage
    /\ IF r.raise = "none"
       THEN /\ heap' = r.heap
            /\ df' = r.ret
            /\ rpc' = Succ(RefineOrder, stage, "return")
            /\ rlog' = Append(rlog, stage)
            /\ UNCHANGED <<pc, env, model_i, out, log, snapshot, err, remote, arg, res>>
       ELSE Abort(r.raise) /\ UNCHANGED log

AddSuspiciousCountryColumn ==
    RunStage("add_suspicious_country_column", add_suspicious_country_column(heap, df))

AddFleschReadingEaseColumn ==
    RunStage("add_flesch_reading_ease_column", add_flesch_reading_ease_column(heap, df))

AddPercentDifficultWordsColumn ==
    RunStage("add_percent_difficult_words_column",
             add_percent_difficult_words_column(heap, df))

AddSentimentColumns ==
    RunStage("add_sentiment_columns", add_sentiment_columns(heap, df))

DropFeatures ==
    RunStage("drop_features", drop_features(heap, df))

ScaleCreationDates ==
    \E now_timestamp \in Nows :
        RunStage("scale_creation_dates", scale_creation_dates(heap, df, now_timestamp))

\* return fake_news_df, assigned by main() to the variable it passed
RefineReturn ==
    /\ pc \in {"refine_training", "refine_testing"}
    /\ rpc = "return"
    /\ rpc' = "idle"
    /\ env' = [env EXCEPT ![RefinedVar] = df]
    /\ pc' = Succ(MainOrder, pc, "done")
    /\ UNCHANGED <<heap, df, model_i, out, log, rlog, snapshot, err, remote, arg, res>>

----------------------------------------------------------------------------
(* evaluate_sklearn_models.                                                *)

modelsWithoutBagging ==
    << "Logistic Regression", "Linear Discriminant Analysis", "K-Nearest Neighbors",
       "Decision Tree", "Gaussian Naive Bayes", "Support Vector Machine",
       "Random Forest Classifier" >>

\* the names of the panel, in list order
models ==
    << "Logistic Regression", "Linear Discriminant Analysis", "K-Nearest Neighbors",
       "Decision Tree", "Gaussian Naive Bayes", "Support Vector Machine",
       "Bagging Classifier", "Random Forest Classifier" >>

n_splits == 10

\* KFold(n_splits) without shuffling on n samples: the test folds are
\* consecutive blocks, the first n % n_splits of them one longer
FoldSize(n, f) == (n \div n_splits) + (IF f <= n % n_splits THEN 1 ELSE 0)

RECURSIVE FoldStart(_, _)
FoldStart(n, f) == IF f = 1 THEN 1 ELSE FoldStart(n, f - 1) + FoldSize(n, f - 1)

KFold(n) == [f \in 1..n_splits |-> FoldStart(n, f)..(FoldStart(n, f) + FoldSize(n, f) - 1)]

\* the arguments main() passes to evaluate_sklearn_models
MainEvaluateArgs == <<env["train_features"], env["train_labels"]>>

Report(name, folds, args) ==
    [kind |-> "report", name |-> name, folds |-> folds, shuffle |-> FALSE,
     scoring |-> "accuracy", features |-> args[1], labels |-> args[2]]

\* one turn of the loop: split, cross-validate, print
EvaluateModel ==
    /\ pc = "evaluate_sklearn_models"
    /\ model_i <= Len(models)
    /\ Len(heap[MainEvaluateArgs[1]].rows) >= n_splits
    /\ model_i' = model_i + 1
    /\ out' = Append(out, Report(models[model_i],
                                 Len(KFold(Len(heap[MainEvaluateArgs[1]].rows))),
                                 MainEvaluateArgs))
    /\ log' = IF model_i = 1 THEN Append(log, Call(pc, MainEvaluateArgs)) ELSE log
    /\ UNCHANGED <<pc, rpc, heap, env, df, rlog, snapshot, err, remote, arg, res>>

\* the split or a fit or score call raises
EvaluateModelRaises ==
    /\ pc = "evaluate_sklearn_models"
    /\ model_i <= Len(models)
    /\ log' = IF model_i = 1 THEN Append(log, Call(pc, MainEvaluateArgs)) ELSE log
    /\ \/ Len(heap[MainEvaluateArgs[1]].rows) < n_splits /\ Abort("ValueError")
       \/ Len(heap[MainEvaluateArgs[1]].rows) >= n_splits /\ Abort("FitError")

EvaluateReturn ==
    /\ pc = "evaluate_sklearn_models"
    /\ model_i > Len(models)
    /\ pc' = Succ(MainOrder, pc, "done")
    /\ UNCHANGED <<rpc, heap, env, df, model_i, out, log, rlog, snapshot, err,
                   remote, arg, res>>

----------------------------------------------------------------------------
(* The neural network.                                                     *)

epochs == 400

Sequential ==
    [type |-> "Sequential", columns |-> {}, index |-> <<>>,
     rows |-> << [layer |-> "Dense", units |-> 1024, activation |-> "relu"],
                 [layer |-> "Dropout", rate |-> <<2, 10>>],
                 [layer |-> "Dense", units |-> 2, activation |-> "softmax"] >>,
     optimizer |-> "adam", loss |-> "sparse_categorical_crossentropy",
     fitted |-> <<>>]

CreateNeuralNetwork ==
    /\ pc = "create_neural_network"
    /\ pc' = Succ(MainOrder, pc, "done")
    /\ heap' = Append(heap, Sequential)
    /\ env' = [env EXCEPT !["neural_network_model"] = Len(heap) + 1]
    /\ log' = Append(log, Call(pc, <<>>))
    /\ UNCHANGED <<rpc, df, model_i, out, rlog, snapshot, err, remote, arg, res>>

\* the arguments main() passes to train_neural_network
MainTrainArgs ==
    <<env["neural_network_model"], env["train_features"], env["train_labels"]>>

\* the arguments main() passes to evaluate_neural_network
MainTestArgs ==
    <<env["neural_network_model"], env["test_features"], env["test_labels"]>>

\* fit() trains the model object it is called on; the same object is returned
TrainNeuralNetwork ==
    /\ pc = "train_neural_network"
    /\ pc' = Succ(MainOrder, pc, "done")
    /\ heap' = [heap EXCEPT ![MainTrainArgs[1]].fitted =
                    <<MainTrainArgs[2], MainTrainArgs[3], epochs>>]
    /\ log' = Append(log, Call(pc, MainTrainArgs))
    /\ UNCHANGED <<rpc, env, df, model_i, out, rlog, snapshot, err, remote, arg, res>>

TrainNeuralNetworkRaises ==
    /\ pc = "train_neural_network"
    /\ log' = Append(log, Call(pc, MainTrainArgs))
    /\ Abort("FitError")

\* print(evaluate_neural_network(...))
EvaluateNeuralNetwork ==
    /\ pc = "evaluate_neural_network"
    /\ pc' = Succ(MainOrder, pc, "done")
    /\ out' = Append(out, [kind |-> "accuracy", name |-> "test_acc", folds |-> 0,
                           shuffle |-> FALSE, scoring |-> "accuracy",
                           features |-> MainTestArgs[2], labels |-> MainTestArgs[3]])
    /\ log' = log \o <<Call(pc, MainTestArgs), Call("print", <<>>)>>
    /\ UNCHANGED <<rpc, heap, env, df, model_i, rlog, snapshot, err, remote, arg, res>>

EvaluateNeuralNetworkRaises ==
    /\ pc = "evaluate_neural_network"
    /\ log' = Append(log, Call(pc, MainTestArgs))
    /\ Abort("EvaluateError")

----------------------------------------------------------------------------
(* The run of main() against some pair of remote documents.                *)

NoResult == [fn |-> "none", value |-> 0]

MainStart ==
    /\ pc = MainOrder[1]
    /\ rpc = "idle"
    /\ heap = <<>>
    /\ env = [train_features |-> 0, train_labels |-> 0, test_features |-> 0,
              test_labels |-> 0, neural_network_model |-> 0]
    /\ df = 0
    /\ model_i = 1
    /\ out = <<>>
    /\ log = <<>>
    /\ rlog = <<>>
    /\ snapshot = [id |-> 0, table |-> NoObject]
    /\ err = "none"

Init ==
    /\ MainStart
    /\ remote \in [train : Documents(MaxRows), test : Documents(MaxTestRows)]
    /\ arg = <<>>
    /\ res = NoResult

Next ==
    \/ LoadTrainingData
    \/ LoadTrainingDataRaises
    \/ LoadTestingData
    \/ LoadTestingDataRaises
    \/ RefineCall
    \/ AddSuspiciousCountryColumn
    \/ AddFleschReadingEaseColumn
    \/ AddPercentDifficultWordsColumn
    \/ AddSentimentColumns
    \/ DropFeatures
    \/ ScaleCreationDates
    \/ RefineReturn
    \/ EvaluateModel
    \/ EvaluateModelRaises
    \/ EvaluateReturn
    \/ CreateNeuralNetwork
    \/ TrainNeuralNetwork
    \/ TrainNeuralNetworkRaises
    \/ EvaluateNeuralNetwork
    \/ EvaluateNeuralNetworkRaises

Spec == Init /\ [][Next]_vars

----------------------------------------------------------------------------
(* The feature functions called directly, on inputs of bounded sets.       *)

\* main() never started
MainOff ==
    /\ pc = "off"
    /\ rpc = "idle"
    /\ heap = <<>>
    /\ env = [train_features |-> 0, train_labels |-> 0, test_features |-> 0,
              test_labels |-> 0, neural_network_model |-> 0]
    /\ df = 0
    /\ model_i = 1
    /\ out = <<>>
    /\ log = <<>>
    /\ rlog = <<>>
    /\ snapshot = [id |-> 0, table |-> NoObject]
    /\ err = "none"
    /\ remote = [train |-> NoObject, test |-> NoObject]

RECURSIVE SeqsUpTo(_, _)
SeqsUpTo(S, n) ==
    IF n = 0 THEN {<<>>}
    ELSE LET shorter == SeqsUpTo(S, n - 1)
         IN  shorter \cup {Append(s, c) : s \in shorter, c \in S}

PadChars == {"M", " ", "D"}

CountryCores ==
    { <<>>, MK, PA, <<"M">>, <<"K", "M">>, <<"m", "k">>, <<"p", "a">>, <<"U", "S">>,
      REDACTED, SubSeq(REDACTED, 1, 7), SubSeq(REDACTED, 2, 8),
      <<"r", "e", "d", "a", "c", "t", "e", "d">>,
      <<"R", "E", "D", " ", "A", "C", "T", "E", "D">>, PRIVACY }

CountryInputs ==
    {p \o c \o q : p \in SeqsUpTo(PadChars, MaxPad), c \in CountryCores,
                   q \in SeqsUpTo(PadChars, MaxPad)}

InitCountry == MainOff /\ arg \in CountryInputs /\ res = NoResult

CallIsSuspiciousCountry ==
    /\ res = NoResult
    /\ res' = [fn |-> "is_suspicious_country", value |-> is_suspicious_country(arg)]
    /\ UNCHANGED <<mainVars, arg>>

NextCountry == CallIsSuspiciousCountry

SpecCountry == InitCountry /\ [][NextCountry]_vars

ArticleInputs ==
    [lexicon_count : 0..MaxWords, difficult_words : 0..MaxWords, flesch : {0},
     polarity : {Dy(0, 0)}, subjectivity : {Dy(0, 0)}]

InitDifficult == MainOff /\ arg \in ArticleInputs /\ res = NoResult

CallPercentDifficultWords ==
    /\ res = NoResult
    /\ res' = [fn |-> "percent_difficult_words", value |-> percent_difficult_words(arg)]
    /\ UNCHANGED <<mainVars, arg>>

NextDifficult == CallPercentDifficultWords

SpecDifficult == InitDifficult /\ [][NextDifficult]_vars

\* the raw values textblob may report: k * 2^-e in [-1, 1], coarse and fine
RawExps ==
    (0..MaxSmallExp) \cup ((FractionBits - 1)..(FractionBits + 1 + MaxExtraExp))

RawValues ==
    {Dy(p[1], p[2]) :
        p \in {q \in ((-MaxMant)..MaxMant) \X RawExps :
                  q[2] > 30 \/ Abs(q[1]) <= Pow2(q[2])}}

SentimentInputs ==
    [lexicon_count : {0}, difficult_words : {0}, flesch : {0},
     polarity : RawValues, subjectivity : RawValues]

InitSentiment == MainOff /\ arg \in SentimentInputs /\ res = NoResult

CallAnalyzeSentiment ==
    /\ res = NoResult
    /\ res' = [fn |-> "analyze_sentiment", value |-> analyze_sentiment(arg)]
    /\ UNCHANGED <<mainVars, arg>>

NextSentiment == CallAnalyzeSentiment

SpecSentiment == InitSentiment /\ [][NextSentiment]_vars

----------------------------------------------------------------------------
(* Properties.                                                             *)

IsPrefix(s, t) == Len(s) <= Len(t) /\ \A i \in 1..Len(s) : s[i] = t[i]

Refining == pc \in {"refine_training", "refine_testing"} /\ rpc # "idle"

DerivedColumns ==
    {"is_suspicious_country", "flesch_reading_ease", "percent_difficult_words",
     "article_polarity", "article_subjectivity"}

PrunedColumns == {"id", "article_text", "country", "title", "news_url"}

\* row r of the table being refined is row o of the table passed in: the
\* columns both have agree, the creation date is that of o (possibly divided
\* by the clock), and the derived cells are those of o's country and text
RowComesFrom(r, o) ==
    /\ \A c \in (DOMAIN r \cap DOMAIN o) \ {"creation_date"} : r[c] = o[c]
    /\ "creation_date" \in (DOMAIN r \cap DOMAIN o) =>
          \/ r["creation_date"] = o["creation_date"]
          \/ \E now \in Nows :
                r["creation_date"].num * now = o["creation_date"].num * r["creation_date"].den
    /\ ("is_suspicious_country" \in DOMAIN r /\ "country" \in DOMAIN o) =>
          r["is_suspicious_country"] = is_suspicious_country(o["country"])
    /\ ("flesch_reading_ease" \in DOMAIN r /\ "article_text" \in DOMAIN o) =>
          r["flesch_reading_ease"] = o["article_text"].flesch
    /\ ("article_polarity" \in DOMAIN r /\ "article_text" \in DOMAIN o) =>
          r["article_polarity"] = Rescale(o["article_text"].polarity)

\* C1: at every point of refine_fake_news_data (after each transform, and at
\* the return) the table has as many rows as the table passed in, and its
\* i-th row is the i-th row of the table passed in.
C1_RowsPreserved ==
    Refining =>
        /\ Len(heap[df].rows) = Len(snapshot.table.rows)
        /\ \A i \in 1..Len(heap[df].rows) :
              RowComesFrom(heap[df].rows[i], snapshot.table.rows[i])

C1_Witness ==
    /\ Refining
    /\ rpc = "return"
    /\ Len(heap[df].rows) >= 3
    /\ df # snapshot.id

\* C2: for an input with the columns id, article_text, country, title,
\* news_url and creation_date, the returned table's columns are the input's
\* minus the five pruned ones plus the five derived ones.
C2_ColumnsAfterRefine ==
    (Refining /\ rpc = "return"
       /\ (PrunedColumns \cup {"creation_date"}) \subseteq snapshot.table.columns) =>
        /\ heap[df].columns = (snapshot.table.columns \ PrunedColumns) \cup DerivedColumns
        /\ heap[df].columns \cap PrunedColumns = {}
        /\ (DerivedColumns \cup {"creation_date"}) \subseteq heap[df].columns
        /\ \A i \in 1..Len(heap[df].rows) : DOMAIN heap[df].rows[i] = heap[df].columns

C2_Witness ==
    /\ Refining
    /\ rpc = "return"
    /\ "tweet_count" \in snapshot.table.columns
    /\ "tweet_count" \in heap[df].columns

\* C3: is_suspicious_country(c) is 1 if c is exactly "MK" or "PA" or has
\* "REDACTED" somewhere in it, and 0 for every other string.
C3_SuspiciousCountry ==
    res.fn = "is_suspicious_country" =>
        /\ res.value \in {0, 1}
        /\ res.value = 1 <=>
              \/ arg = <<"M", "K">>
              \/ arg = <<"P", "A">>
              \/ \E i \in 1..Len(arg) :
                    /\ i + 7 <= Len(arg)
                    /\ [j \in 1..8 |-> arg[i + j - 1]]
                          = <<"R", "E", "D", "A", "C", "T", "E", "D">>

C3_Witness ==
    /\ res.fn = "is_suspicious_country"
    /\ res.value = 1
    /\ Len(arg) > 8
    /\ arg[1] # "R"

\* C4 as stated: the rescaled values lie in [0, 1] and the rescaling is
\* strictly monotonic, a < b giving rescaled(a) < rescaled(b).
C4_StrictlyMonotonic ==
    res.fn = "analyze_sentiment" =>
        /\ InUnitInterval(res.value[1])
        /\ InUnitInterval(res.value[2])
        /\ DyLess(arg.polarity, arg.subjectivity) => DyLess(res.value[1], res.value[2])
        /\ DyLess(arg.subjectivity, arg.polarity) => DyLess(res.value[2], res.value[1])

\* C4, amended: the rescaled values lie in [0, 1]; the rescaling never
\* reverses an order, a < b giving rescaled(a) <= rescaled(b); and it is
\* strictly monotonic on the raw values that are multiples of 2^-52.
C4_Monotonic ==
    res.fn = "analyze_sentiment" =>
        /\ InUnitInterval(res.value[1])
        /\ InUnitInterval(res.value[2])
        /\ DyLess(arg.polarity, arg.subjectivity) => DyLeq(res.value[1], res.value[2])
        /\ DyLess(arg.subjectivity, arg.polarity) => DyLeq(res.value[2], res.value[1])
        /\ (arg.polarity.e <= 52 /\ arg.subjectivity.e <= 52) =>
              /\ DyLess(arg.polarity, arg.subjectivity) =>
                    DyLess(res.value[1], res.value[2])
              /\ DyLess(arg.subjectivity, arg.polarity) =>
                    DyLess(res.value[2], res.value[1])

C4_Witness ==
    /\ res.fn = "analyze_sentiment"
    /\ DyLess(arg.polarity, arg.subjectivity)
    /\ arg.polarity.k < 0
    /\ res.value[1] = res.value[2]

\* C5: for a text whose lexicon count is zero percent_difficult_words returns
\* the int 0 without dividing; otherwise it returns difficult words divided
\* by the lexicon count.
C5_PercentDifficultWords ==
    res.fn = "percent_difficult_words" =>
        IF arg.lexicon_count = 0
        THEN res.value = [kind |-> "int", num |-> 0, den |-> 1]
        ELSE /\ res.value.kind = "float"
             /\ res.value.den > 0
             /\ res.value.num * arg.lexicon_count = arg.difficult_words * res.value.den

C5_Witness ==
    /\ res.fn = "percent_difficult_words"
    /\ arg.lexicon_count = 0
    /\ arg.difficult_words > 0
    /\ res.value.kind = "int"

Calls == [i \in 1..Len(log) |-> log[i].call]

ArgsOf(name) == log[CHOOSE i \in 1..Len(log) : log[i].call = name].args

\* C6: the calls of main() are made once each and in the order load train,
\* load test, refine train, refine test, classical evaluation, build, train,
\* evaluate, print; the evaluator and the training get the refined training
\* table and the training labels, the network evaluation the test ones.
C6_StageOrder ==
    LET expected == << "load_fake_news_training_data", "load_fake_news_testing_data",
                       "refine_training", "refine_testing", "evaluate_sklearn_models",
                       "create_neural_network", "train_neural_network",
                       "evaluate_neural_network", "print" >>
    IN  /\ IsPrefix(Calls, expected)
        /\ pc = "done" =>
              /\ Calls = expected
              /\ err = "none"
              /\ ArgsOf("refine_training") = <<1>>
              /\ ArgsOf("refine_testing") = <<3>>
              /\ ArgsOf("evaluate_sklearn_models") = <<env["train_features"], 2>>
              /\ ArgsOf("train_neural_network")
                    = <<env["neural_network_model"], env["train_features"], 2>>
              /\ ArgsOf("evaluate_neural_network")
                    = <<env["neural_network_model"], env["test_features"], 4>>
              /\ env["train_features"] \notin {1, 3, env["test_features"]}
              /\ env["test_features"] \notin {1, 3}
              /\ snapshot.id = 3
              /\ heap[env["train_features"]].rows # <<>>
              /\ Len(heap[env["train_features"]].rows) = Len(remote.train.rows)
              /\ Len(heap[env["test_features"]].rows) = Len(remote.test.rows)
              /\ DerivedColumns \subseteq heap[env["train_features"]].columns
              /\ DerivedColumns \subseteq heap[env["test_features"]].columns
              /\ heap[2].rows = Column(remote.train, "is_fake")
              /\ heap[4].rows = Column(remote.test, "is_fake")
              /\ Len(out) = 9
              /\ out[9].kind = "accuracy"

C6_Witness ==
    /\ pc = "done"
    /\ Len(log) = 9
    /\ remote.train # remote.test

Reports == SelectSeq(out, LAMBDA line : line.kind = "report")

\* C7: evaluate_sklearn_models prints one report per classifier of the panel,
\* in panel order, each from a 10-fold unshuffled cross-validation: 8 reports
\* once it has returned.
C7_EightReports ==
    LET panel == << "Logistic Regression", "Linear Discriminant Analysis",
                    "K-Nearest Neighbors", "Decision Tree", "Gaussian Naive Bayes",
                    "Support Vector Machine", "Bagging Classifier",
                    "Random Forest Classifier" >>
    IN  /\ Len(Reports) <= 8
        /\ \A i \in 1..Len(Reports) :
              /\ Reports[i].name = panel[i]
              /\ Reports[i].folds = 10
              /\ Reports[i].shuffle = FALSE
              /\ Reports[i].scoring = "accuracy"
        /\ pc \in {"evaluate_sklearn_models"} => Len(Reports) = model_i - 1
        /\ pc \in {"create_neural_network", "train_neural_network",
                   "evaluate_neural_network", "done"} => Len(Reports) = 8

C7_Witness ==
    /\ pc = "create_neural_network"
    /\ Len(Reports) = 8
    /\ Len(heap[env["train_features"]].rows) = 10
    /\ Cardinality({i \in 1..10 : heap[env["train_labels"]].rows[i] = 1}) = 5

AccuracyPrinted == \E i \in 1..Len(out) : out[i].kind = "accuracy"

\* C8 as stated: a failure aborts the run, nothing is retried, no later stage
\* executes, and the failed run has produced no partial report.
C8_NoPartialReport ==
    [][ /\ err' # "none" => pc' = "aborted"
        /\ pc = "aborted" => UNCHANGED vars
        /\ pc' = "aborted" => out' = <<>> ]_vars

\* C8, amended: a failure aborts the run, nothing is retried, no later stage
\* executes and nothing is printed by or after the failing call; what the
\* evaluation loop printed before the failure stays on the console, and the
\* accuracy line is never printed.
C8_FailureAborts ==
    [][ /\ err' # "none" => pc' = "aborted"
        /\ err # "none" => UNCHANGED vars
        /\ pc = "aborted" => UNCHANGED vars
        /\ pc' = "aborted" =>
              /\ err' # "none"
              /\ out' = out
              /\ ~AccuracyPrinted'
              /\ Len(out') < 8 \/ pc = "train_neural_network"
                               \/ pc = "evaluate_neural_network"
                               \/ pc = "create_neural_network" ]_vars

C8_Witness ==
    /\ pc = "aborted"
    /\ err = "FitError"
    /\ Len(out) = 3
    /\ model_i = 4

StageStep == Refining /\ rpc # "return" /\ rpc' # rpc

\* C9 as stated: every stage leaves the table object it is passed as it was
\* and returns a new table.
C9_StagesPure ==
    [][ StageStep => /\ heap'[df] = heap[df]
                     /\ df' # df ]_vars

Assigned(stage) ==
    CASE stage = "add_suspicious_country_column" -> {"is_suspicious_country"}
      [] stage = "add_flesch_reading_ease_column" -> {"flesch_reading_ease"}
      [] stage = "add_percent_difficult_words_column" -> {"percent_difficult_words"}
      [] stage = "add_sentiment_columns" -> {"article_polarity", "article_subjectivity"}
      [] stage = "scale_creation_dates" -> {"creation_date"}
      [] OTHER -> {}

\* C9, amended: drop_features returns a new table and leaves the table it is
\* passed as it was; each of the other five stages assigns its columns on the
\* table object it is passed and returns that same object; no stage touches
\* any other object.
C9_OnlyDropCopies ==
    [][ StageStep =>
          /\ \A o \in (1..Len(heap)) \ {df} : heap'[o] = heap[o]
          /\ IF rpc = "drop_features"
             THEN /\ df' = Len(heap) + 1
                  /\ Len(heap') = Len(heap) + 1
                  /\ heap'[df] = heap[df]
             ELSE /\ df' = df
                  /\ Len(heap') = Len(heap)
                  /\ heap'[df] # heap[df]
                  /\ heap'[df].index = heap[df].index
                  /\ heap'[df].columns = heap[df].columns \cup Assigned(rpc)
                  /\ \A c \in heap[df].columns \ Assigned(rpc) :
                        Column(heap'[df], c) = Column(heap[df], c) ]_vars

C9_Witness ==
    /\ Refining
    /\ rpc = "return"
    /\ df # snapshot.id
    /\ heap[snapshot.id] # snapshot.table
    /\ DerivedColumns \subseteq heap[snapshot.id].columns

Reads(stage) ==
    CASE stage = "add_suspicious_country_column" -> {"country"}
      [] stage = "add_flesch_reading_ease_column" -> {"article_text"}
      [] stage = "add_percent_difficult_words_column" -> {"article_text"}
      [] stage = "add_sentiment_columns" -> {"article_text"}
      [] stage = "scale_creation_dates" -> {"creation_date"}
      [] OTHER -> {}

\* C10: in refine_fake_news_data the four derived-feature transforms complete
\* before drop_features and drop_features before the scaling, so that for an
\* input with country, article_text and creation_date every column a stage
\* reads is in the table when the stage runs.
C10_RefineOrder ==
    LET order == << "add_suspicious_country_column", "add_flesch_reading_ease_column",
                    "add_percent_difficult_words_column", "add_sentiment_columns",
                    "drop_features", "scale_creation_dates" >>
    IN  Refining =>
          /\ IsPrefix(rlog, order)
          /\ rpc = "return" => rlog = order
          /\ rpc # "return" => rpc = order[Len(rlog) + 1]
          /\ {"country", "article_text", "creation_date"} \subseteq snapshot.table.columns
                => Reads(rpc) \subseteq heap[df].columns

C10_Witness ==
    /\ Refining
    /\ rpc = "scale_creation_dates"
    /\ Len(rlog) = 5
    /\ "country" \notin heap[df].columns
    /\ "creation_date" \in heap[df].columns

====
